---- MODULE Spec2Model ----
(***************************************************************************)
(* Model of the cog_converter incremental-processing and deduplication     *)
(* engine: the SQLite metadata store (sqlite_metadata_manager.py), the     *)
(* per-file conversion pipeline (pipeline.py) and the run orchestrator     *)
(* (engine.py).                                                            *)
(*                                                                         *)
(* Encoding.  SQL NULL is 0 (run ids and conversion ids start at 1).       *)
(* The conversions table is a sequence whose index is conversion_id        *)
(* (AUTOINCREMENT, rows are never deleted).  processing_state is a         *)
(* sequence in rowid order.  content_hash_index is a set of                *)
(* <<content_hash, file_path>> pairs.  A file is its content hash and its  *)
(* modification time; all files carry the same extension, so the blob path *)
(* generated for an upload is a function of the content hash alone.        *)
(***************************************************************************)
EXTENDS Integers, Sequences, FiniteSets, TLC

(* ------------------------------ bounds -------------------------------- *)

MaxRuns == 2

MaxTouches == 1

MaxRetries == 2

MaxFaults == 1

Paths == {"a", "b"}

Hashes == {"h1", "h2"}

NULL == 0

Strategies == {"reference", "skip", "process", "warn"}

VARIABLES
    conversions,          \* table conversions, indexed by conversion_id
    processing_state,     \* table processing_state, in rowid order
    content_hash_index,   \* table content_hash_index
    runs,                 \* table runs, indexed by run_id
    file_hash,            \* file system: content hash of each file
    file_mtime,           \* file system: modification time of each file
    pc,                   \* position of the orchestrator process
    config,               \* effective configuration of the engine
    current_run_id,       \* ConversionEngine.current_run_id
    todo,                 \* files_to_process still to be handled, in order
    stats,                \* ConversionPipeline.stats
    run_log,              \* history: what the current / last run did
    call_log              \* history: what the current / last process_file call did

store_vars == <<conversions, processing_state, content_hash_index>>

fs_vars == <<file_hash, file_mtime>>

engine_vars == <<pc, config, current_run_id, todo, stats>>

vars == <<conversions, processing_state, content_hash_index, runs, file_hash,
          file_mtime, pc, config, current_run_id, todo, stats, run_log, call_log>>

(* ----------------------- the metadata store --------------------------- *)

\* The three record tables, passed through the store operations as one value.
Store == [c |-> conversions, s |-> processing_state, x |-> content_hash_index]

Last(seq) == seq[Len(seq)]

\* The store after a sequence of commits (the last committed state).
After(st, commits) == IF commits = <<>> THEN st ELSE Last(commits)

\* Result of a store call: the store states it commits one after the other,
\* whether it raised, and the value it returned (a conversion_id or a flag).
Result(commits, raised, ret) == [commits |-> commits, raised |-> raised, ret |-> ret]

RowOfPath(c, path) ==
    IF \E i \in 1..Len(c) : c[i].original_file_path = path
    THEN CHOOSE i \in 1..Len(c) : c[i].original_file_path = path
    ELSE NULL

file_has_conversion_record(c, path) == RowOfPath(c, path) # NULL

\* INSERT OR REPLACE INTO processing_state ...; commit.  The primary key is
\* (file_path, run_id); SQLite keeps NULLs of a primary key distinct, so a
\* row with run_id NULL never replaces anything.
update_processing_state(st, path, hash, status, mtime, run) ==
    LET kept == SelectSeq(st.s, LAMBDA r :
                    ~(run # NULL /\ r.file_path = path /\ r.run_id = run))
        row  == [file_path |-> path, run_id |-> run, status |-> status,
                 content_hash |-> hash, file_modification_time |-> mtime]
    IN  [st EXCEPT !.s = Append(kept, row)]

\* INSERT OR IGNORE INTO content_hash_index ...; commit.
update_content_hash_index(st, path, hash) ==
    [st EXCEPT !.x = st.x \cup {<<hash, path>>}]

NoState == [file_path |-> "", run_id |-> NULL, status |-> "none",
            content_hash |-> "", file_modification_time |-> 0]

\* SELECT ... FROM processing_state WHERE file_path = ? ; fetchone().
\* The search runs on the primary-key index (file_path, run_id), so the row
\* fetched is the one with the smallest run_id, NULL first, oldest first.
get_processing_state(s, path) ==
    LET idxs == {i \in 1..Len(s) : s[i].file_path = path}
    IN  IF idxs = {} THEN NoState
        ELSE LET i == CHOOSE i \in idxs : \A j \in idxs :
                          \/ s[i].run_id < s[j].run_id
                          \/ s[i].run_id = s[j].run_id /\ i <= j
             IN  s[i]

\* _update_processing_state_for_run: UPDATE the (file_path, run_id) row in
\* place (status and modification time; the content hash stays), or INSERT.
update_processing_state_for_run(st, path, hash, status, mtime, run) ==
    IF \E i \in 1..Len(st.s) : st.s[i].file_path = path /\ st.s[i].run_id = run
    THEN [st EXCEPT !.s = [i \in 1..Len(st.s) |->
              IF st.s[i].file_path = path /\ st.s[i].run_id = run
              THEN [st.s[i] EXCEPT !.status = status,
                                   !.file_modification_time = mtime]
              ELSE st.s[i]]]
    ELSE [st EXCEPT !.s = Append(st.s,
              [file_path |-> path, run_id |-> run, status |-> status,
               content_hash |-> hash, file_modification_time |-> mtime])]

\* should_process_file(file_path, force, current_run_id), for a file that
\* exists: the decision and, when an unchanged file is passed over under a
\* run id, the 'skipped' state row written for that run.  (The only call in
\* ConversionEngine passes a keyword the method does not have and never
\* gets here.)
should_process_file(st, path, force, current_mtime, run) ==
    LET state == get_processing_state(st.s, path)
    IN  IF force THEN Result(<<>>, FALSE, TRUE)
        ELSE IF state.status = "none" THEN Result(<<>>, FALSE, TRUE)
        ELSE IF current_mtime > state.file_modification_time
        THEN Result(<<>>, FALSE, TRUE)
        ELSE IF state.status \in {"completed", "duplicate_referenced", "skipped"}
        THEN IF run # NULL
             THEN Result(<<update_processing_state_for_run(
                              st, path, state.content_hash, "skipped",
                              current_mtime, run)>>, FALSE, FALSE)
             ELSE Result(<<>>, FALSE, FALSE)
        ELSE Result(<<>>, FALSE, TRUE)

\* Variant of is_duplicate_content whose query leaves out file_path != ?.
is_duplicate_content_any_path(x, hash, path) ==
    \E e \in x : e[1] = hash

\* SELECT COUNT(*) FROM content_hash_index WHERE content_hash = ? AND file_path != ?
is_duplicate_content(x, hash, path) ==
    \E e \in x : e[1] = hash /\ e[2] # path

\* Variant of get_existing_blob_for_content whose query leaves out
\* status = 'completed'.
get_existing_blob_for_content_any_status(c, hash) ==
    LET ids == {i \in 1..Len(c) : c[i].content_hash = hash}
    IN  IF ids = {} THEN NULL
        ELSE CHOOSE i \in ids : \A j \in ids : i <= j

\* Variant of get_existing_blob_for_content that takes the completed row
\* stored last.
get_existing_blob_for_content_newest(c, hash) ==
    LET ids == {i \in 1..Len(c) : c[i].status = "completed" /\ c[i].content_hash = hash}
    IN  IF ids = {} THEN NULL
        ELSE CHOOSE i \in ids : \A j \in ids : j <= i

\* SELECT ... FROM conversions WHERE status = 'completed' AND content_hash = ?
\* AND blob_path IS NOT NULL LIMIT 1: rows come in conversion_id order, and
\* blob_path is never NULL (it is "" when there is no blob).
get_existing_blob_for_content(c, hash) ==
    LET ids == {i \in 1..Len(c) : c[i].status = "completed" /\ c[i].content_hash = hash}
    IN  IF ids = {} THEN NULL
        ELSE CHOOSE i \in ids : \A j \in ids : i <= j

\* BEGIN; INSERT INTO conversions; _update_processing_state (which commits
\* the row and the state); _update_content_hash_index (which commits the
\* index entry); commit.  The store states committed, in order.
InsertRecord(st, row, state_status) ==
    LET st1 == update_processing_state(
                   [st EXCEPT !.c = Append(st.c, row)],
                   row.original_file_path, row.content_hash, state_status,
                   row.file_modification_time, row.run_id)
        st2 == update_content_hash_index(st1, row.original_file_path, row.content_hash)
    IN  <<st1, st2>>

\* _update_existing_record: UPDATE conversions SET <new_data> WHERE path;
\* DELETE FROM content_hash_index WHERE file_path; INSERT OR IGNORE the new
\* pair; no transaction is open, so each statement commits on its own.
\* new_data has no duplicate_of_conversion_id and no error_type.
update_existing_record(st, path, row) ==
    LET i   == RowOfPath(st.c, path)
        st1 == [st EXCEPT !.c[i] =
                   [@ EXCEPT !.content_hash = row.content_hash,
                             !.status = row.status,
                             !.is_duplicate = row.is_duplicate,
                             !.blob_path = row.blob_path,
                             !.run_id = row.run_id,
                             !.file_modification_time = row.file_modification_time]]
        st2 == [st1 EXCEPT !.x = {e \in st1.x : e[2] # path}]
        st3 == [st2 EXCEPT !.x = st2.x \cup {<<row.content_hash, path>>}]
    IN  Result(<<st1, st2, st3>>, FALSE, i)

\* Variant of add_conversion_record without the UNIQUE constraint on
\* original_file_path: the INSERT always succeeds.
add_conversion_record_insert_only(st, path, blob, hash, mtime, run) ==
    LET row == [original_file_path |-> path, content_hash |-> hash,
                status |-> "completed", duplicate_of_conversion_id |-> NULL,
                is_duplicate |-> FALSE, blob_path |-> blob, run_id |-> run,
                error_type |-> "", file_modification_time |-> mtime]
    IN  Result(InsertRecord(st, row, "completed"), FALSE, Len(st.c) + 1)

\* add_conversion_record: a fresh path is inserted; a uniqueness violation
\* on the path rolls back and goes to _update_existing_record.
add_conversion_record(st, path, blob, hash, mtime, run) ==
    LET row == [original_file_path |-> path, content_hash |-> hash,
                status |-> "completed", duplicate_of_conversion_id |-> NULL,
                is_duplicate |-> FALSE, blob_path |-> blob, run_id |-> run,
                error_type |-> "", file_modification_time |-> mtime]
    IN  IF file_has_conversion_record(st.c, path)
        THEN update_existing_record(st, path, row)
        ELSE Result(InsertRecord(st, row, "completed"), FALSE, Len(st.c) + 1)

\* add_failed_conversion: the INSERT of an already recorded path raises
\* IntegrityError, which is rolled back and re-raised.
add_failed_conversion(st, path, hash, mtime, error_type, run) ==
    LET row == [original_file_path |-> path, content_hash |-> hash,
                status |-> "failed", duplicate_of_conversion_id |-> NULL,
                is_duplicate |-> FALSE, blob_path |-> "", run_id |-> run,
                error_type |-> error_type, file_modification_time |-> mtime]
    IN  IF file_has_conversion_record(st.c, path)
        THEN Result(<<>>, TRUE, NULL)
        ELSE Result(InsertRecord(st, row, "failed"), FALSE, Len(st.c) + 1)

\* mark_file_failed: state, index, then add_failed_conversion.
mark_file_failed(st, path, hash, mtime, run) ==
    LET st1 == update_processing_state(st, path, hash, "failed", mtime, run)
        st2 == update_content_hash_index(st1, path, hash)
        afc == add_failed_conversion(st2, path, hash, mtime, "processing_failed", run)
    IN  Result(<<st1, st2>> \o afc.commits, afc.raised, NULL)

\* Variant of create_duplicate_reference that writes INSERT OR REPLACE
\* semantics by hand: the row of a recorded path is overwritten in place.
create_duplicate_reference_upsert(st, path, existing, hash, mtime, run) ==
    LET row == [original_file_path |-> path, content_hash |-> hash,
                status |-> "duplicate_referenced",
                duplicate_of_conversion_id |-> existing,
                is_duplicate |-> TRUE, blob_path |-> st.c[existing].blob_path,
                run_id |-> run, error_type |-> "",
                file_modification_time |-> mtime]
        i   == RowOfPath(st.c, path)
    IN  IF file_has_conversion_record(st.c, path)
        THEN Result(<<[st EXCEPT !.c[i] = row]>>, FALSE, i)
        ELSE Result(InsertRecord(st, row, "duplicate_referenced"), FALSE, Len(st.c) + 1)

\* create_duplicate_reference: INSERT of a duplicate_referenced row that
\* copies the blob path of the referenced record; raises on a recorded path.
create_duplicate_reference(st, path, existing, hash, mtime, run) ==
    LET row == [original_file_path |-> path, content_hash |-> hash,
                status |-> "duplicate_referenced",
                duplicate_of_conversion_id |-> existing,
                is_duplicate |-> TRUE, blob_path |-> st.c[existing].blob_path,
                run_id |-> run, error_type |-> "",
                file_modification_time |-> mtime]
    IN  IF file_has_conversion_record(st.c, path)
        THEN Result(<<>>, TRUE, NULL)
        ELSE Result(InsertRecord(st, row, "duplicate_referenced"), FALSE, Len(st.c) + 1)

\* handle_duplicate_file
handle_duplicate_file(st, path, hash, duplicate_strategy, mtime, run) ==
    LET existing_blob == get_existing_blob_for_content(st.c, hash)
    IN  IF existing_blob = NULL THEN Result(<<>>, FALSE, FALSE)
        ELSE IF duplicate_strategy = "reference"
        THEN LET cdr == create_duplicate_reference(st, path, existing_blob, hash, mtime, run)
             IN  Result(cdr.commits, cdr.raised, ~cdr.raised)
        ELSE IF duplicate_strategy = "skip"
        THEN Result(<<update_processing_state(st, path, hash, "skipped", mtime, run)>>,
                    FALSE, TRUE)
        ELSE Result(<<>>, FALSE, FALSE)

(* --------------------------- the pipeline ----------------------------- *)

\* _initialize_stats
InitStats == [total_files |-> 0, successful |-> 0, failed |-> 0, skipped |-> 0,
              retries |-> 0, uploaded |-> 0, upload_failed |-> 0,
              duplicates_referenced |-> 0]

\* self.stats[counter] += 1 ("" increments nothing)
Bump(st, counter) ==
    IF counter = "" THEN st ELSE [st EXCEPT ![counter] = @ + 1]

\* generate_blob_path: the content hash of the uploaded artifact plus the
\* extension; the artifact is a function of the source content.
generate_blob_path(hash) == "blob_" \o hash

\* Result of a duplicate check: the commits it made, whether the file was
\* handled as a duplicate, and the statistics counter it incremented.
Check(commits, ret, counter) == [commits |-> commits, ret |-> ret, counter |-> counter]

\* Variant of _should_skip_duplicate in which 'warn' suppresses the
\* processing like 'skip'.
should_skip_duplicate_warn_skips(st, path, hash, mtime, cfg, run) ==
    IF ~cfg.detect_duplicates THEN Check(<<>>, FALSE, "")
    ELSE IF is_duplicate_content(st.x, hash, path)
    THEN IF cfg.duplicate_strategy = "reference"
         THEN LET h == handle_duplicate_file(st, path, hash, "reference", mtime, run)
              IN  IF h.raised THEN Check(h.commits, FALSE, "")
                  ELSE IF h.ret THEN Check(h.commits, TRUE, "duplicates_referenced")
                  ELSE Check(h.commits, FALSE, "")
         ELSE IF cfg.duplicate_strategy \in {"skip", "warn"}
         THEN Check(<<>>, TRUE, "skipped")
         ELSE Check(<<>>, FALSE, "")
    ELSE Check(<<>>, FALSE, "")

\* _should_skip_duplicate: the duplicate check made before the conversion.
\* An exception of handle_duplicate_file is logged and the file is processed.
should_skip_duplicate(st, path, hash, mtime, cfg, run) ==
    IF ~cfg.detect_duplicates THEN Check(<<>>, FALSE, "")
    ELSE IF is_duplicate_content(st.x, hash, path)
    THEN IF cfg.duplicate_strategy = "reference"
         THEN LET h == handle_duplicate_file(st, path, hash, "reference", mtime, run)
              IN  IF h.raised THEN Check(h.commits, FALSE, "")
                  ELSE IF h.ret THEN Check(h.commits, TRUE, "duplicates_referenced")
                  ELSE Check(h.commits, FALSE, "")
         ELSE IF cfg.duplicate_strategy = "skip"
         THEN Check(<<>>, TRUE, "skipped")
         ELSE Check(<<>>, FALSE, "")
    ELSE Check(<<>>, FALSE, "")

\* Variant of _should_handle_duplicate_after_conversion whose result is
\* ignored by the caller: the duplicate is handled and counted, and the
\* upload and the record follow all the same.
should_handle_duplicate_result_ignored(st, path, hash, mtime, cfg, run) ==
    IF ~cfg.detect_duplicates THEN Check(<<>>, FALSE, "")
    ELSE IF ~is_duplicate_content(st.x, hash, path) THEN Check(<<>>, FALSE, "")
    ELSE IF cfg.duplicate_strategy = "reference"
    THEN LET h == handle_duplicate_file(st, path, hash, "reference", mtime, run)
         IN  IF ~h.raised /\ h.ret
             THEN Check(h.commits, FALSE, "duplicates_referenced")
             ELSE Check(h.commits, FALSE, "")
    ELSE IF cfg.duplicate_strategy = "skip"
    THEN Check(<<>>, FALSE, "skipped")
    ELSE Check(<<>>, FALSE, "")

\* _should_handle_duplicate_after_conversion: the same check, made after the
\* conversion and before the upload and the record.
should_handle_duplicate_after_conversion(st, path, hash, mtime, cfg, run) ==
    IF ~cfg.detect_duplicates THEN Check(<<>>, FALSE, "")
    ELSE IF ~is_duplicate_content(st.x, hash, path) THEN Check(<<>>, FALSE, "")
    ELSE IF cfg.duplicate_strategy = "reference"
    THEN LET h == handle_duplicate_file(st, path, hash, "reference", mtime, run)
         IN  IF ~h.raised /\ h.ret
             THEN Check(h.commits, TRUE, "duplicates_referenced")
             ELSE Check(h.commits, FALSE, "")
    ELSE IF cfg.duplicate_strategy = "skip"
    THEN Check(<<>>, TRUE, "skipped")
    ELSE Check(<<>>, FALSE, "")

\* The converter's behaviour over the calls of one process_file: k raises
\* and then a final answer, or a raise at each of the max_retries + 1 calls.
Script(k, final) == [i \in 1..(k + 1) |-> IF i <= k THEN "raise" ELSE final]

Scripts(max_retries) ==
    {Script(k, final) : k \in 0..max_retries, final \in {"ok", "false"}}
        \cup {[i \in 1..(max_retries + 1) |-> "raise"]}

\* Variant of the retry loop that compares with < instead of <=: it gives
\* up after max_retries calls.
RECURSIVE retry_loop_strict(_, _, _, _, _)
retry_loop_strict(attempt, script, max_retries, retries, calls) ==
    LET answer == script[calls + 1]
    IN  IF answer = "ok"
        THEN [outcome |-> "ok", retries |-> retries, calls |-> calls + 1]
        ELSE IF answer = "false"
        THEN [outcome |-> "false", retries |-> retries, calls |-> calls + 1]
        ELSE IF attempt + 1 < max_retries
        THEN retry_loop_strict(attempt + 1, script, max_retries, retries + 1, calls + 1)
        ELSE [outcome |-> "exhausted", retries |-> retries, calls |-> calls + 1]

\* Variant of the retry loop that counts a retry when the converter
\* returns false.
RECURSIVE retry_loop_false_counted(_, _, _, _, _)
retry_loop_false_counted(attempt, script, max_retries, retries, calls) ==
    LET answer == script[calls + 1]
    IN  IF answer = "ok"
        THEN [outcome |-> "ok", retries |-> retries, calls |-> calls + 1]
        ELSE IF answer = "false"
        THEN [outcome |-> "false", retries |-> retries + 1, calls |-> calls + 1]
        ELSE IF attempt + 1 <= max_retries
        THEN retry_loop_false_counted(attempt + 1, script, max_retries,
                                      retries + 1, calls + 1)
        ELSE [outcome |-> "exhausted", retries |-> retries, calls |-> calls + 1]

\* Variant of the retry loop that tests the attempt counter before it is
\* incremented: one call more before it gives up.
RECURSIVE retry_loop_one_more(_, _, _, _, _)
retry_loop_one_more(attempt, script, max_retries, retries, calls) ==
    LET answer == script[calls + 1]
    IN  IF answer = "ok"
        THEN [outcome |-> "ok", retries |-> retries, calls |-> calls + 1]
        ELSE IF answer = "false"
        THEN [outcome |-> "false", retries |-> retries, calls |-> calls + 1]
        ELSE IF attempt <= max_retries
        THEN retry_loop_one_more(attempt + 1, script, max_retries,
                                 retries + 1, calls + 1)
        ELSE [outcome |-> "exhausted", retries |-> retries, calls |-> calls + 1]

\* The retry loop of process_file: while attempt <= max_retries: convert;
\* true -> converted; false -> failed without retry; an exception counts an
\* attempt and, while attempts remain, a retry.
RECURSIVE retry_loop(_, _, _, _, _)
retry_loop(attempt, script, max_retries, retries, calls) ==
    LET answer == script[calls + 1]
    IN  IF answer = "ok"
        THEN [outcome |-> "ok", retries |-> retries, calls |-> calls + 1]
        ELSE IF answer = "false"
        THEN [outcome |-> "false", retries |-> retries, calls |-> calls + 1]
        ELSE IF attempt + 1 <= max_retries
        THEN retry_loop(attempt + 1, script, max_retries, retries + 1, calls + 1)
        ELSE [outcome |-> "exhausted", retries |-> retries, calls |-> calls + 1]

(* ---------------------------- the engine ------------------------------ *)

Configs ==
    [force_reprocess : BOOLEAN, skip_already_processed : BOOLEAN,
     detect_duplicates : BOOLEAN, duplicate_strategy : Strategies,
     storage_enabled : BOOLEAN, max_retries : {MaxRetries}]

\* The settings of a deployment, the same in all its runs; force_reprocess
\* and skip_already_processed are given run by run.
Deployment(cfg) ==
    [detect_duplicates |-> cfg.detect_duplicates,
     duplicate_strategy |-> cfg.duplicate_strategy,
     storage_enabled |-> cfg.storage_enabled, max_retries |-> cfg.max_retries]

\* find_raster_files: the files under the input root, in walk order.
FileLists == {<<>>, <<"a">>, <<"b">>, <<"a", "b">>}

Range(seq) == {seq[i] : i \in 1..Len(seq)}

\* _filter_files_for_processing.  With force_reprocess every file is kept.
\* Otherwise, with skip_already_processed, the first file reaches the call
\* should_process_file(file_path, skip_already_processed=...), a keyword the
\* method does not accept: TypeError, raised out of run().  Otherwise every
\* file is kept.
filter_files_for_processing(files, cfg) ==
    IF cfg.force_reprocess THEN [raised |-> FALSE, files |-> files]
    ELSE IF cfg.skip_already_processed THEN [raised |-> TRUE, files |-> <<>>]
    ELSE [raised |-> FALSE, files |-> files]

Running == {"pre", "convert", "post", "upload", "record", "end"}

NewRun == [ended |-> FALSE, total_files |-> 0, successful |-> 0, failed |-> 0,
           skipped |-> 0, duplicates_referenced |-> 0]

\* The call of handle_duplicate_file made by a duplicate check, if any:
\* whether a completed record of the hash existed, what the call gave back
\* (true, false or an exception) and whether it wrote to the store.
NoHandle == [called |-> FALSE, canonical |-> FALSE, outcome |-> "none",
             wrote |-> FALSE]

HandleCall(st, path, hash, mtime, cfg, run) ==
    IF /\ cfg.detect_duplicates
       /\ is_duplicate_content(st.x, hash, path)
       /\ cfg.duplicate_strategy = "reference"
    THEN LET h == handle_duplicate_file(st, path, hash, "reference", mtime, run)
         IN  [called |-> TRUE,
              canonical |-> get_existing_blob_for_content(st.c, hash) # NULL,
              outcome |-> IF h.raised THEN "raised"
                          ELSE IF h.ret THEN "true" ELSE "false",
              wrote |-> h.commits # <<>>]
    ELSE NoHandle

NoCall == [path |-> "", status |-> "none", before |-> InitStats,
           script |-> <<>>, conv |-> "none", calls |-> 0, upload |-> "none",
           recorded |-> FALSE, had_row |-> FALSE, row_before |-> NULL,
           len_before |-> 0, ret |-> NULL, own_record |-> FALSE,
           hash |-> "", mtime |-> 0, force |-> FALSE, prior |-> NoState,
           handle |-> NoHandle, dup |-> FALSE, check_wrote |-> FALSE,
           busy |-> FALSE]

SetStore(st) ==
    /\ conversions' = st.c
    /\ processing_state' = st.s
    /\ content_hash_index' = st.x

\* The end of one process_file call: the loop of run() goes to the next file.
NextFile ==
    /\ todo' = Tail(todo)
    /\ pc' = IF Tail(todo) = <<>> THEN "end" ELSE "pre"

\* The state after construction, for an engine configured from configs.
InitWith(configs) ==
    /\ conversions = <<>>
    /\ processing_state = <<>>
    /\ content_hash_index = {}
    /\ runs = <<>>
    /\ file_hash \in {f \in [Paths -> Hashes] : f["a"] = "h1"}
    /\ file_mtime = [p \in Paths |-> 1]
    /\ pc = "idle"
    /\ config \in configs
    /\ current_run_id = NULL
    /\ todo = <<>>
    /\ stats = InitStats
    /\ run_log = [discovered |-> {}, selected |-> {}, attempted |-> {},
                  touched |-> {}, pending_touched |-> {}, prev_files |-> {},
                  prev_done |-> FALSE, prev_all_completed |-> FALSE,
                  empty_start |-> TRUE, clean |-> TRUE,
                  faults |-> 0, touches |-> 0]
    /\ call_log = NoCall

Init ==
    InitWith({c \in Configs :
                  /\ ~c.force_reprocess /\ c.skip_already_processed
                  /\ ~c.detect_duplicates => c.duplicate_strategy = "reference"})

\* A file is modified between two runs: its modification time grows and its
\* content stays or changes.
Touch(path, hash) ==
    /\ pc \notin Running
    /\ runs # <<>>
    /\ run_log.touches < MaxTouches
    /\ file_mtime' = [file_mtime EXCEPT ![path] = @ + 1]
    /\ file_hash' = [file_hash EXCEPT ![path] = hash]
    /\ run_log' = [run_log EXCEPT !.pending_touched = @ \cup {path},
                                  !.touches = @ + 1]
    /\ UNCHANGED <<store_vars, runs, engine_vars, call_log>>

\* ConversionEngine(config).run(input_path), up to the first process_file:
\* start_new_run, discovery, the early return on an empty list, the filter.
\* st is the value of pipeline.stats the run starts with: the pipeline is
\* built with its engine and run() does not reset its counters.
StartRunWith(cfg, files, st) ==
    LET flt == filter_files_for_processing(files, cfg)
    IN  /\ pc \notin Running
        /\ Len(runs) < MaxRuns
        /\ Deployment(cfg) = Deployment(config)
        /\ runs' = Append(runs, NewRun)
        /\ current_run_id' = Len(runs) + 1
        /\ config' = cfg
        /\ stats' = st
        /\ todo' = flt.files
        /\ pc' = IF files = <<>> THEN "no_files"
                 ELSE IF flt.raised THEN "raised"
                 ELSE IF flt.files = <<>> THEN "end"
                 ELSE "pre"
        /\ run_log' = [discovered |-> Range(files),
                       selected |-> IF files = <<>> THEN {} ELSE Range(flt.files),
                       attempted |-> {},
                       touched |-> run_log.pending_touched,
                       pending_touched |-> {},
                       prev_files |-> run_log.discovered,
                       prev_done |-> pc = "done",
                       prev_all_completed |->
                           /\ pc = "done"
                           /\ \A p \in run_log.discovered :
                                  /\ file_has_conversion_record(conversions, p)
                                  /\ conversions[RowOfPath(conversions, p)].status = "completed",
                       empty_start |-> conversions = <<>> /\ processing_state = <<>>
                                         /\ content_hash_index = {},
                       clean |-> TRUE,
                       faults |-> run_log.faults,
                       touches |-> run_log.touches]
        /\ call_log' = NoCall
        /\ UNCHANGED <<store_vars, fs_vars>>

\* A run of a newly built engine (a new process with its own settings).
StartRun(cfg, files) == StartRunWith(cfg, files, InitStats)

\* process_file, first part: count the file, then _should_skip_duplicate.
\* (Every discovered file has a converter.)
ProcessPre ==
    /\ pc = "pre"
    /\ LET path == Head(todo)
           chk  == should_skip_duplicate(Store, path, file_hash[path],
                                         file_mtime[path], config, current_run_id)
       IN  /\ SetStore(After(Store, chk.commits))
           /\ stats' = Bump([stats EXCEPT !.total_files = @ + 1], chk.counter)
           /\ call_log' = [NoCall EXCEPT
                  !.path = path,
                  !.status = IF chk.ret THEN "returned" ELSE "running",
                  !.before = stats,
                  !.hash = file_hash[path],
                  !.mtime = file_mtime[path],
                  !.handle = HandleCall(Store, path, file_hash[path],
                                 file_mtime[path], config, current_run_id),
                  !.dup = /\ config.detect_duplicates
                          /\ is_duplicate_content(content_hash_index,
                                                  file_hash[path], path),
                  !.check_wrote = chk.commits # <<>>,
                  !.own_record =
                      /\ config.detect_duplicates
                      /\ config.duplicate_strategy = "reference"
                      /\ is_duplicate_content(content_hash_index, file_hash[path], path)
                      /\ file_has_conversion_record(conversions, path)
                      /\ get_existing_blob_for_content(conversions, file_hash[path])
                             = RowOfPath(conversions, path)]
           /\ IF chk.ret THEN NextFile ELSE pc' = "convert" /\ todo' = todo
    /\ UNCHANGED <<runs, fs_vars, config, current_run_id, run_log>>

\* process_file, the retry loop, for one behaviour of the converter.  When
\* the retries are exhausted mark_file_failed is called (without a run id);
\* its exception is not caught and leaves run().
Convert(script) ==
    /\ pc = "convert"
    /\ LET path == Head(todo)
           r    == retry_loop(0, script, config.max_retries, 0, 0)
           mff  == mark_file_failed(Store, path, file_hash[path], file_mtime[path], NULL)
           st1  == [stats EXCEPT !.retries = @ + r.retries]
       IN  /\ script # Script(0, "ok") => run_log.faults < MaxFaults
           /\ run_log' = [run_log EXCEPT !.attempted = @ \cup {path},
                                         !.clean = @ /\ r.outcome = "ok",
                                         !.faults = IF script = Script(0, "ok")
                                                    THEN @ ELSE @ + 1]
           /\ CASE r.outcome = "ok" ->
                    /\ stats' = Bump(st1, "successful")
                    /\ call_log' = [call_log EXCEPT !.conv = "ok",
                                        !.script = script, !.calls = r.calls]
                    /\ pc' = "post"
                    /\ todo' = todo
                    /\ UNCHANGED store_vars
                [] r.outcome = "false" ->
                    /\ stats' = Bump(st1, "failed")
                    /\ call_log' = [call_log EXCEPT !.conv = "false",
                                        !.script = script, !.calls = r.calls,
                                        !.status = "returned"]
                    /\ NextFile
                    /\ UNCHANGED store_vars
                [] r.outcome = "exhausted" ->
                    /\ stats' = Bump(st1, "failed")
                    /\ SetStore(After(Store, mff.commits))
                    /\ call_log' = [call_log EXCEPT !.conv = "exhausted",
                                        !.script = script, !.calls = r.calls,
                                        !.status = IF mff.raised THEN "raised"
                                                   ELSE "returned"]
                    /\ IF mff.raised THEN pc' = "raised" /\ todo' = todo
                       ELSE NextFile
    /\ UNCHANGED <<runs, fs_vars, config, current_run_id>>

\* _handle_post_conversion / _handle_metadata_only, first part:
\* _should_handle_duplicate_after_conversion.
PostCheck ==
    /\ pc = "post"
    /\ LET path == Head(todo)
           chk  == should_handle_duplicate_after_conversion(
                       Store, path, file_hash[path], file_mtime[path],
                       config, current_run_id)
           now  == HandleCall(Store, path, file_hash[path], file_mtime[path],
                              config, current_run_id)
           hdl  == IF now.called THEN now ELSE call_log.handle
       IN  /\ SetStore(After(Store, chk.commits))
           /\ stats' = Bump(stats, chk.counter)
           /\ IF chk.ret
              THEN /\ NextFile
                   /\ call_log' = [call_log EXCEPT
                          !.status = "returned", !.handle = hdl,
                          !.check_wrote = @ \/ chk.commits # <<>>]
              ELSE /\ pc' = IF config.storage_enabled THEN "upload" ELSE "record"
                   /\ todo' = todo
                   /\ call_log' = [call_log EXCEPT
                          !.handle = hdl,
                          !.check_wrote = @ \/ chk.commits # <<>>]
    /\ UNCHANGED <<runs, fs_vars, config, current_run_id, run_log>>

\* _handle_post_conversion, the upload.  When upload_with_metadata raises,
\* add_failed_conversion is called in the handler (without a run id); its
\* exception is not caught and leaves run().
Upload(ok) ==
    /\ pc = "upload"
    /\ LET path == Head(todo)
           afc  == add_failed_conversion(Store, path, file_hash[path],
                                         file_mtime[path], "upload_failure", NULL)
       IN  IF ok
           THEN /\ stats' = Bump(stats, "uploaded")
                /\ call_log' = [call_log EXCEPT !.upload = "ok"]
                /\ pc' = "record"
                /\ UNCHANGED <<store_vars, todo, run_log>>
           ELSE /\ run_log.faults < MaxFaults
                /\ stats' = Bump(stats, "upload_failed")
                /\ SetStore(After(Store, afc.commits))
                /\ call_log' = [call_log EXCEPT !.upload = "raised",
                                    !.status = IF afc.raised THEN "raised"
                                               ELSE "returned"]
                /\ run_log' = [run_log EXCEPT !.clean = FALSE, !.faults = @ + 1]
                /\ IF afc.raised THEN pc' = "raised" /\ todo' = todo
                   ELSE NextFile
    /\ UNCHANGED <<runs, fs_vars, config, current_run_id>>

\* The record written after the upload (create_conversion_record_from_upload)
\* or, without storage, after the conversion (create_conversion_record).
RecordResult ==
    LET path == Head(todo)
    IN  add_conversion_record(
            Store, path,
            IF config.storage_enabled THEN generate_blob_path(file_hash[path]) ELSE "",
            file_hash[path], file_mtime[path], current_run_id)

Record ==
    /\ pc = "record"
    /\ LET path == Head(todo)
           acr  == RecordResult
       IN  /\ SetStore(After(Store, acr.commits))
           /\ call_log' = [call_log EXCEPT
                  !.status = "returned", !.recorded = TRUE,
                  !.had_row = file_has_conversion_record(conversions, path),
                  !.row_before = RowOfPath(conversions, path),
                  !.len_before = Len(conversions),
                  !.ret = acr.ret]
           /\ NextFile
    /\ UNCHANGED <<runs, fs_vars, config, current_run_id, stats, run_log>>

\* end_run(current_run_id, stats)
EndRun ==
    /\ pc = "end"
    /\ runs' = [runs EXCEPT ![current_run_id] =
                   [ended |-> TRUE, total_files |-> stats.total_files,
                    successful |-> stats.successful, failed |-> stats.failed,
                    skipped |-> stats.skipped,
                    duplicates_referenced |-> stats.duplicates_referenced]]
    /\ pc' = "done"
    /\ UNCHANGED <<store_vars, fs_vars, config, current_run_id, todo, stats,
                   run_log, call_log>>

\* The commits the pending step of the process may be in the middle of.
PendingCommits ==
    LET path == Head(todo)
    IN  CASE pc = "pre" ->
                {should_skip_duplicate(Store, path, file_hash[path],
                     file_mtime[path], config, current_run_id).commits}
          [] pc = "convert" ->
                {mark_file_failed(Store, path, file_hash[path],
                     file_mtime[path], NULL).commits}
          [] pc = "post" ->
                {should_handle_duplicate_after_conversion(Store, path,
                     file_hash[path], file_mtime[path], config,
                     current_run_id).commits}
          [] pc = "upload" ->
                {add_failed_conversion(Store, path, file_hash[path],
                     file_mtime[path], "upload_failure", NULL).commits}
          [] pc = "record" -> {RecordResult.commits}
          [] OTHER -> {<<>>}

\* The process is terminated during a run: between two steps, or inside the
\* pending store call after any number of its commits but the last.
Terminate ==
    /\ pc \in Running
    /\ run_log.faults < MaxFaults
    /\ run_log' = [run_log EXCEPT !.faults = @ + 1]
    /\ \E commits \in PendingCommits :
         \E k \in 0..(IF commits = <<>> THEN 0 ELSE Len(commits) - 1) :
             SetStore(IF k = 0 THEN Store ELSE commits[k])
    /\ pc' = "killed"
    /\ call_log' = IF pc = "pre"
                   THEN [NoCall EXCEPT !.path = Head(todo), !.status = "killed",
                                       !.before = stats]
                   ELSE IF pc = "end" THEN call_log
                   ELSE [call_log EXCEPT !.status = "killed"]
    /\ UNCHANGED <<runs, fs_vars, config, current_run_id, todo, stats>>

Next ==
    \/ \E cfg \in Configs, files \in FileLists : StartRun(cfg, files)
    \/ \E path \in Paths, hash \in Hashes : Touch(path, hash)
    \/ ProcessPre
    \/ \E script \in Scripts(config.max_retries) : Convert(script)
    \/ PostCheck
    \/ \E ok \in BOOLEAN : Upload(ok)
    \/ Record
    \/ EndRun
    \/ Terminate

Spec == Init /\ [][Next]_vars

(* ------------- one engine instance running several times ------------- *)

\* One ConversionEngine object whose run() is called again and again in
\* one process: the configuration and the pipeline, with its statistics,
\* are those built in __init__.
InstanceInit ==
    InitWith({c \in Configs :
                  ~c.detect_duplicates => c.duplicate_strategy = "reference"})

InstanceNext ==
    \/ \E files \in FileLists : StartRunWith(config, files, stats)
    \/ \E path \in Paths, hash \in Hashes : Touch(path, hash)
    \/ ProcessPre
    \/ \E script \in Scripts(config.max_retries) : Convert(script)
    \/ PostCheck
    \/ \E ok \in BOOLEAN : Upload(ok)
    \/ Record
    \/ EndRun

InstanceSpec == InstanceInit /\ [][InstanceNext]_vars

(* ------------- the incremental filter called on its own ------------- *)

\* The processing_state row of a path that was written last, if any.
LastState(s, path) ==
    LET idxs == {i \in 1..Len(s) : s[i].file_path = path}
    IN  IF idxs = {} THEN NoState
        ELSE s[CHOOSE i \in idxs : \A j \in idxs : j <= i]

\* metadata_manager.should_process_file(path, force, current_run_id) called
\* between two runs on an existing file, without a run id or with the id of
\* the latest run.
ShouldProcess(path, force, run) ==
    LET spf == should_process_file(Store, path, force, file_mtime[path], run)
    IN  /\ pc \notin Running
        /\ runs # <<>>
        /\ run \in {NULL, current_run_id}
        /\ SetStore(After(Store, spf.commits))
        /\ call_log' = [NoCall EXCEPT !.path = path, !.status = "checked",
                                      !.force = force, !.mtime = file_mtime[path],
                                      !.prior = LastState(processing_state, path),
                                      !.ret = spf.ret]
        /\ UNCHANGED <<runs, fs_vars, engine_vars, run_log>>

\* A deployment that detects duplicates with strategy 'reference' and
\* uploads: every status of the table is then written by some run.
FilterInit ==
    /\ Init
    /\ config.detect_duplicates /\ config.duplicate_strategy = "reference"
    /\ config.storage_enabled

FilterNext ==
    \/ Next
    \/ \E path \in Paths, force \in BOOLEAN, run \in 0..MaxRuns :
           ShouldProcess(path, force, run)

FilterSpec == FilterInit /\ [][FilterNext]_vars

(* ------------- two orchestrators sharing one store ------------------- *)

\* Two ConversionEngine instances (two processes) opened on the same
\* database file, each run over its own file: orchestrator 1 over a,
\* orchestrator 2 over b.  In ConcSpec the variables that belong to one
\* engine (pc, current_run_id, todo, stats, call_log) hold one value per
\* orchestrator; the store and the file system are shared.  Every store
\* call is one step: SQLite serialises the calls, so the interleavings of
\* whole calls are a subset of those the processes can show.
Orchestrators == {1, 2}

PathOf(o) == IF o = 1 THEN "a" ELSE "b"

ConcInit ==
    /\ conversions = <<>>
    /\ processing_state = <<>>
    /\ content_hash_index = {}
    /\ runs = <<>>
    /\ file_hash \in {f \in [Paths -> Hashes] : f["a"] = "h1"}
    /\ file_mtime = [p \in Paths |-> 1]
    /\ config \in {c \in Configs :
                       ~c.detect_duplicates => c.duplicate_strategy = "reference"}
    /\ pc = [o \in Orchestrators |-> "idle"]
    /\ current_run_id = [o \in Orchestrators |-> NULL]
    /\ todo = [o \in Orchestrators |-> <<PathOf(o)>>]
    /\ stats = [o \in Orchestrators |-> InitStats]
    /\ call_log = [o \in Orchestrators |-> [NoCall EXCEPT !.path = PathOf(o)]]
    /\ run_log = <<>>

\* run(), up to the first process_file, in orchestrator o.
ConcStartRun(o) ==
    LET flt == filter_files_for_processing(todo[o], config)
    IN  /\ pc[o] = "idle"
        /\ runs' = Append(runs, NewRun)
        /\ current_run_id' = [current_run_id EXCEPT ![o] = Len(runs) + 1]
        /\ pc' = [pc EXCEPT ![o] = IF flt.raised THEN "raised" ELSE "pre"]
        /\ UNCHANGED <<store_vars, fs_vars, config, todo, stats, run_log, call_log>>

\* process_file in orchestrator o: count the file, _should_skip_duplicate.
ConcProcessPre(o) ==
    /\ pc[o] = "pre"
    /\ LET path == Head(todo[o])
           chk  == should_skip_duplicate(Store, path, file_hash[path],
                       file_mtime[path], config, current_run_id[o])
       IN  /\ SetStore(After(Store, chk.commits))
           /\ stats' = [stats EXCEPT ![o] =
                            Bump([@ EXCEPT !.total_files = @ + 1], chk.counter)]
           /\ pc' = [pc EXCEPT ![o] = IF chk.ret THEN "end" ELSE "convert"]
    /\ UNCHANGED <<runs, fs_vars, config, current_run_id, todo, run_log, call_log>>

\* process_file in orchestrator o: the retry loop.
ConcConvert(o, script) ==
    /\ pc[o] = "convert"
    /\ LET path == Head(todo[o])
           r    == retry_loop(0, script, config.max_retries, 0, 0)
           mff  == mark_file_failed(Store, path, file_hash[path], file_mtime[path], NULL)
           st1  == [stats[o] EXCEPT !.retries = @ + r.retries]
       IN  /\ call_log' = [call_log EXCEPT ![o].conv = r.outcome,
                                           ![o].script = script,
                                           ![o].calls = r.calls]
           /\ CASE r.outcome = "ok" ->
                    /\ stats' = [stats EXCEPT ![o] = Bump(st1, "successful")]
                    /\ pc' = [pc EXCEPT ![o] = "post"]
                    /\ UNCHANGED store_vars
                [] r.outcome = "false" ->
                    /\ stats' = [stats EXCEPT ![o] = Bump(st1, "failed")]
                    /\ pc' = [pc EXCEPT ![o] = "end"]
                    /\ UNCHANGED store_vars
                [] r.outcome = "exhausted" ->
                    /\ stats' = [stats EXCEPT ![o] = Bump(st1, "failed")]
                    /\ SetStore(After(Store, mff.commits))
                    /\ pc' = [pc EXCEPT ![o] = IF mff.raised THEN "raised" ELSE "end"]
    /\ UNCHANGED <<runs, fs_vars, config, current_run_id, todo, run_log>>

\* _handle_post_conversion / _handle_metadata_only in orchestrator o: the
\* duplicate check made after the conversion.
ConcPostCheck(o) ==
    /\ pc[o] = "post"
    /\ LET path == Head(todo[o])
           chk  == should_handle_duplicate_after_conversion(
                       Store, path, file_hash[path], file_mtime[path],
                       config, current_run_id[o])
       IN  /\ SetStore(After(Store, chk.commits))
           /\ stats' = [stats EXCEPT ![o] = Bump(@, chk.counter)]
           /\ pc' = [pc EXCEPT ![o] = IF chk.ret THEN "end"
                                      ELSE IF config.storage_enabled THEN "upload"
                                      ELSE "record"]
    /\ UNCHANGED <<runs, fs_vars, config, current_run_id, todo, run_log, call_log>>

\* The upload in orchestrator o, and the failure handler when it raises.
ConcUpload(o, ok) ==
    /\ pc[o] = "upload"
    /\ LET path == Head(todo[o])
           afc  == add_failed_conversion(Store, path, file_hash[path],
                                         file_mtime[path], "upload_failure", NULL)
       IN  IF ok
           THEN /\ stats' = [stats EXCEPT ![o] = Bump(@, "uploaded")]
                /\ call_log' = [call_log EXCEPT ![o].upload = "ok"]
                /\ pc' = [pc EXCEPT ![o] = "record"]
                /\ UNCHANGED store_vars
           ELSE /\ stats' = [stats EXCEPT ![o] = Bump(@, "upload_failed")]
                /\ SetStore(After(Store, afc.commits))
                /\ call_log' = [call_log EXCEPT ![o].upload = "raised"]
                /\ pc' = [pc EXCEPT ![o] = IF afc.raised THEN "raised" ELSE "end"]
    /\ UNCHANGED <<runs, fs_vars, config, current_run_id, todo, run_log>>

\* The record written by orchestrator o after the duplicate check (and the
\* upload).  With busy, the other process holds the write lock for longer
\* than busy_timeout: BEGIN raises OperationalError('database is locked'),
\* add_conversion_record rolls back and re-raises, and the except branch of
\* the caller records the file as failed (upload_failure with storage,
\* metadata_failure without) once the lock is free again.
ConcRecord(o, busy) ==
    /\ pc[o] = "record"
    /\ LET path == Head(todo[o])
           acr  == add_conversion_record(
                       Store, path,
                       IF config.storage_enabled
                       THEN generate_blob_path(file_hash[path]) ELSE "",
                       file_hash[path], file_mtime[path], current_run_id[o])
           afc  == add_failed_conversion(
                       Store, path, file_hash[path], file_mtime[path],
                       IF config.storage_enabled THEN "upload_failure"
                       ELSE "metadata_failure", NULL)
       IN  IF busy
           THEN /\ \E q \in Orchestrators \ {o} : pc[q] \in Running
                /\ SetStore(After(Store, afc.commits))
                /\ stats' = [stats EXCEPT ![o] =
                                 IF config.storage_enabled
                                 THEN Bump(@, "upload_failed") ELSE @]
                /\ call_log' = [call_log EXCEPT ![o].busy = TRUE]
                /\ pc' = [pc EXCEPT ![o] = IF afc.raised THEN "raised" ELSE "end"]
           ELSE /\ SetStore(After(Store, acr.commits))
                /\ call_log' = [call_log EXCEPT ![o].recorded = TRUE,
                                                ![o].ret = acr.ret]
                /\ pc' = [pc EXCEPT ![o] = "end"]
                /\ UNCHANGED stats
    /\ UNCHANGED <<runs, fs_vars, config, current_run_id, todo, run_log>>

\* end_run in orchestrator o.
ConcEndRun(o) ==
    /\ pc[o] = "end"
    /\ runs' = [runs EXCEPT ![current_run_id[o]] =
                   [ended |-> TRUE, total_files |-> stats[o].total_files,
                    successful |-> stats[o].successful,
                    failed |-> stats[o].failed, skipped |-> stats[o].skipped,
                    duplicates_referenced |-> stats[o].duplicates_referenced]]
    /\ pc' = [pc EXCEPT ![o] = "done"]
    /\ UNCHANGED <<store_vars, fs_vars, config, current_run_id, todo, stats,
                   run_log, call_log>>

ConcNext ==
    \E o \in Orchestrators :
        \/ ConcStartRun(o)
        \/ ConcProcessPre(o)
        \/ \E script \in Scripts(config.max_retries) : ConcConvert(o, script)
        \/ ConcPostCheck(o)
        \/ \E ok \in BOOLEAN : ConcUpload(o, ok)
        \/ \E busy \in BOOLEAN : ConcRecord(o, busy)
        \/ ConcEndRun(o)

ConcSpec == ConcInit /\ [][ConcNext]_vars

(* ------------------------------ claims ------------------------------- *)

Ids == 1..Len(conversions)

Row(path) == conversions[RowOfPath(conversions, path)]

ReferenceDeployment ==
    config.detect_duplicates /\ config.duplicate_strategy = "reference"

\* The converter raised k times and then returned true.
RaisedThenOk(script, k) ==
    /\ Len(script) = k + 1
    /\ script[k + 1] = "ok"
    /\ \A i \in 1..k : script[i] = "raise"

\* C1: with duplicate detection on and strategy 'reference', whenever no run
\* is in progress, every content hash that has a non-failed conversion record
\* has exactly one completed record, and every other non-failed record of
\* that hash is duplicate_referenced and points at a completed record.
C1_OneCompletedPerHash ==
    (ReferenceDeployment /\ pc \notin Running /\ run_log.faults = 0) =>
        \A h \in Hashes :
            LET live == {i \in Ids : /\ conversions[i].content_hash = h
                                     /\ conversions[i].status # "failed"}
                done == {i \in live : conversions[i].status = "completed"}
            IN  live # {} =>
                  /\ Cardinality(done) = 1
                  /\ \A i \in live \ done :
                       /\ conversions[i].status = "duplicate_referenced"
                       /\ conversions[i].duplicate_of_conversion_id \in Ids
                       /\ conversions[conversions[i].duplicate_of_conversion_id].status
                              = "completed"

\* The run that just ended repeats the previous, normally ended run: same
\* files, none of them touched in between.
RepeatedRun ==
    /\ run_log.prev_done
    /\ run_log.discovered # {}
    /\ run_log.prev_files = run_log.discovered
    /\ run_log.touched = {}

\* C2: a second run over the same unchanged files, with force_reprocess off
\* and skip_already_processed on, ends normally, converts no file, records
\* every file as skipped and writes a 'successful' counter of 0.
C2_SecondRunSkipsAll ==
    (/\ RepeatedRun
     /\ ~config.force_reprocess /\ config.skip_already_processed
     /\ pc \in {"done", "raised"}) =>
        /\ pc = "done"
        /\ run_log.attempted = {}
        /\ \A p \in run_log.discovered :
               \E i \in 1..Len(processing_state) :
                   /\ processing_state[i].file_path = p
                   /\ processing_state[i].status = "skipped"
        /\ runs[current_run_id].successful = 0

\* C3: after a run in which every file completed, when exactly one file was
\* touched, the next run with force_reprocess off selects exactly that file.
C3_OnlyTouchedFileSelected ==
    (/\ run_log.prev_all_completed
     /\ run_log.prev_files = run_log.discovered
     /\ Cardinality(run_log.touched) = 1
     /\ run_log.touched \subseteq run_log.discovered
     /\ ~config.force_reprocess) =>
        run_log.selected = run_log.touched

\* C4: with force_reprocess on, a run that ends normally has invoked the
\* converter for every discovered file.
C4_ForceAttemptsEveryFile ==
    (config.force_reprocess /\ pc = "done") =>
        run_log.attempted = run_log.discovered

\* C5: no conversion record's duplicate_of_conversion_id is its own
\* conversion_id.
C5_NoSelfReference ==
    \A i \in Ids : conversions[i].duplicate_of_conversion_id # i

\* C5 witness: a path whose own record is the completed holder of its hash
\* was reprocessed while another path shares the hash.
C5_Witness ==
    call_log.own_record /\ call_log.status = "returned" /\ call_log.recorded

\* C6: from an empty store, one run with strategy 'reference' over the two
\* files a and b of identical content, with working collaborators, ends with
\* a completed and holding a remote path, b duplicate_referenced, pointing at
\* a's record and holding the same remote path, and the counter at 1.
C6_IdenticalFilesOneRun ==
    (/\ ReferenceDeployment /\ config.storage_enabled
     /\ run_log.empty_start /\ run_log.clean
     /\ run_log.discovered = {"a", "b"}
     /\ file_hash["a"] = file_hash["b"] /\ run_log.pending_touched = {}
     /\ pc \in {"done", "raised"}) =>
        /\ pc = "done"
        /\ file_has_conversion_record(conversions, "a")
        /\ file_has_conversion_record(conversions, "b")
        /\ Row("a").status = "completed"
        /\ Row("a").blob_path # ""
        /\ Row("b").status = "duplicate_referenced"
        /\ Row("b").duplicate_of_conversion_id = RowOfPath(conversions, "a")
        /\ Row("b").blob_path = Row("a").blob_path
        /\ runs[current_run_id].duplicates_referenced = 1

C8_UploadFailureRecorded ==
    (call_log.upload = "raised" /\ call_log.status \in {"returned", "raised"}) =>
        /\ call_log.status = "returned"
        /\ file_has_conversion_record(conversions, call_log.path)
        /\ Row(call_log.path).status = "failed"
        /\ Row(call_log.path).error_type = "upload_failure"
        /\ stats.successful = call_log.before.successful + 1
        /\ stats.upload_failed = call_log.before.upload_failed + 1

\* C9: the conversions row, the processing_state row and the hash-index
\* entry of a path are written together or not at all: every conversions
\* row has a processing_state row and its (hash, path) index entry.
C9_RecordWritesAtomic ==
    \A i \in Ids :
        /\ \E j \in 1..Len(processing_state) :
               processing_state[j].file_path = conversions[i].original_file_path
        /\ <<conversions[i].content_hash, conversions[i].original_file_path>>
               \in content_hash_index

\* C10: add_conversion_record for a path that has a conversions row adds no
\* row, updates the row in place with the new values, keeps and returns its
\* conversion_id; no two rows ever share a source path.
C10_UpdateInPlace ==
    /\ \A i, j \in Ids :
           conversions[i].original_file_path = conversions[j].original_file_path
               => i = j
    /\ (call_log.recorded /\ call_log.had_row) =>
           /\ Len(conversions) = call_log.len_before
           /\ RowOfPath(conversions, call_log.path) = call_log.row_before
           /\ call_log.ret = call_log.row_before
           /\ Row(call_log.path).status = "completed"
           /\ Row(call_log.path).is_duplicate = FALSE
           /\ Row(call_log.path).content_hash = call_log.hash
           /\ Row(call_log.path).file_modification_time = call_log.mtime
           /\ Row(call_log.path).run_id = current_run_id
           /\ Row(call_log.path).blob_path =
                  IF config.storage_enabled THEN generate_blob_path(call_log.hash)
                  ELSE ""

\* C10 witness: a path that already had a row was recorded again.
C10_Witness ==
    call_log.recorded /\ call_log.had_row /\ call_log.ret # NULL

\* C11: when the failure of a file is recorded (mark_file_failed after the
\* retries are exhausted, add_failed_conversion after the upload raised),
\* also for a path that already has a conversions row, the store call does
\* not raise to the caller and the path's row is failed with the new error.
C11_FailedAgainUpdates ==
    (/\ call_log.conv = "exhausted" \/ call_log.upload = "raised"
     /\ call_log.status \in {"returned", "raised"}) =>
        /\ call_log.status = "returned"
        /\ file_has_conversion_record(conversions, call_log.path)
        /\ Row(call_log.path).status = "failed"
        /\ Row(call_log.path).error_type =
               IF call_log.conv = "exhausted" THEN "processing_failed"
               ELSE "upload_failure"

\* C12: a store call that raises while the outcome of one file is recorded
\* does not abort the run: the run goes on to the remaining files and to
\* end_run.
C12_StoreErrorDoesNotAbortRun ==
    call_log.status = "raised" => pc \in Running \cup {"done"}

\* C13: in every store state, the duplicate_of_conversion_id of every
\* duplicate_referenced record names an existing conversions row whose
\* status is completed.
C13_ReferenceIsCompleted ==
    \A i \in Ids :
        conversions[i].status = "duplicate_referenced" =>
            /\ conversions[i].duplicate_of_conversion_id \in Ids
            /\ conversions[conversions[i].duplicate_of_conversion_id].status
                   = "completed"

\* C13 witness: the path of a referenced record was processed again, in a
\* later run and its row updated, while a duplicate_referenced record points
\* at it.
C13_Witness ==
    \E i \in Ids :
        /\ conversions[i].status = "duplicate_referenced"
        /\ conversions[i].duplicate_of_conversion_id \in Ids
        /\ conversions[i].run_id # current_run_id
        /\ call_log.path =
               conversions[conversions[i].duplicate_of_conversion_id].original_file_path
        /\ call_log.recorded

\* The current process_file call handled its file as a duplicate: it counted
\* a reference or a skip.
DuplicateHandled ==
    /\ call_log.path # ""
    /\ \/ stats.duplicates_referenced > call_log.before.duplicates_referenced
       \/ stats.skipped > call_log.before.skipped

\* C14: a file is handled as a duplicate only after its own conversion has
\* been attempted and its completed record has been committed.
C14_DedupAfterOwnRecord ==
    DuplicateHandled => (call_log.conv = "ok" /\ call_log.recorded)

\* C15: two orchestrators share the store, each processes one of two paths
\* of identical, unrecorded content under strategy 'reference', and no
\* collaborator fails.  When both runs have ended, exactly one path holds a
\* completed record and the other a duplicate_referenced record pointing at
\* it.  (Stated for ConcSpec.)
C15_OneCompletedUnderRace ==
    (/\ ReferenceDeployment
     /\ file_hash["a"] = file_hash["b"]
     /\ \A o \in Orchestrators :
            /\ pc[o] = "done"
            /\ call_log[o].conv \in {"none", "ok"}
            /\ call_log[o].upload # "raised") =>
        \E o, q \in Orchestrators :
            /\ o # q
            /\ file_has_conversion_record(conversions, PathOf(o))
            /\ file_has_conversion_record(conversions, PathOf(q))
            /\ Row(PathOf(o)).status = "completed"
            /\ Row(PathOf(q)).status = "duplicate_referenced"
            /\ Row(PathOf(q)).duplicate_of_conversion_id
                   = RowOfPath(conversions, PathOf(o))

\* C16: should_process_file(path, force) is the decision table over force,
\* the presence of a processing state, the modification times and the status
\* recorded last: true if forced, else true if the path has no processing
\* state, else true if the file is strictly newer than recorded, else false
\* if the last status is completed, duplicate_referenced or skipped, else
\* true.
C16_DecisionTable ==
    call_log.status = "checked" =>
        call_log.ret =
            (\/ call_log.force
             \/ call_log.prior.status = "none"
             \/ call_log.mtime > call_log.prior.file_modification_time
             \/ call_log.prior.status \notin
                    {"completed", "duplicate_referenced", "skipped"})

\* C17: handle_duplicate_file with strategy 'reference' for a hash that has
\* no completed record signals an error to its caller (it does not give an
\* ordinary return value) and writes nothing to the store.
C17_MissingCanonicalFailsLoudly ==
    (call_log.handle.called /\ ~call_log.handle.canonical) =>
        /\ call_log.handle.outcome = "raised"
        /\ ~call_log.handle.wrote

C19_SkipIsRecorded ==
    (/\ config.detect_duplicates /\ config.duplicate_strategy = "skip"
     /\ call_log.status = "returned"
     /\ stats.skipped > call_log.before.skipped) =>
        /\ \E i \in 1..Len(processing_state) :
               /\ processing_state[i].file_path = call_log.path
               /\ processing_state[i].status = "skipped"
        /\ \A i \in Ids :
               conversions[i].original_file_path = call_log.path =>
                   /\ conversions[i].duplicate_of_conversion_id = NULL
                   /\ ~conversions[i].is_duplicate

\* The duplicate check of orchestrator o, before or after the conversion,
\* reported the file as handled.
ConcHandled(o) ==
    \/ stats[o].duplicates_referenced > 0
    \/ stats[o].skipped > 0

\* C20: a process_file call whose duplicate handling reported the file as
\* handled performs no upload and writes no completed record of its own for
\* the path, whether the duplicate was found before or after the conversion.
C20_HandledNotRecorded ==
    \A o \in Orchestrators :
        ConcHandled(o) =>
            /\ pc[o] \in {"end", "done"}
            /\ ~call_log[o].recorded
            /\ call_log[o].upload = "none"
            /\ stats[o].uploaded = 0
            /\ file_has_conversion_record(conversions, PathOf(o)) =>
                   Row(PathOf(o)).status = "duplicate_referenced"

\* A duplicate found after the file's own conversion was handled by
\* reference.
C20_Witness ==
    \E o \in Orchestrators :
        /\ ConcHandled(o)
        /\ call_log[o].conv = "ok"
        /\ pc[o] = "done"
        /\ file_has_conversion_record(conversions, PathOf(o))

\* C21: when the converter returns false, at the first call or after k
\* raises, process_file stops there: convert was called k + 1 times and not
\* again, retries grew by the k raises only, failed grew by exactly 1,
\* successful did not grow, and the call returned without an upload or a
\* record.
C21_FalseIsTerminal ==
    \A k \in 0..config.max_retries :
        (/\ call_log.conv # "none"
         /\ call_log.script = Script(k, "false")) =>
            /\ call_log.conv = "false"
            /\ call_log.status = "returned"
            /\ call_log.calls = k + 1
            /\ stats.retries = call_log.before.retries + k
            /\ stats.failed = call_log.before.failed + 1
            /\ stats.successful = call_log.before.successful
            /\ call_log.upload = "none"
            /\ ~call_log.recorded

\* The converter raised once and then returned false.
C21_Witness ==
    /\ call_log.script = Script(1, "false")
    /\ call_log.conv = "false"
    /\ call_log.status = "returned"

\* C22: when the converter raises at every call, process_file has called it
\* max_retries + 1 times, retries grew by max_retries and failed by 1, and
\* afterwards the store holds a failed record of the path with the error of
\* this call, and the processing state of the path is failed.
C22_ExhaustedIsRecorded ==
    (/\ call_log.conv = "exhausted"
     /\ call_log.status \in {"returned", "raised"}) =>
        /\ call_log.calls = config.max_retries + 1
        /\ stats.retries = call_log.before.retries + config.max_retries
        /\ stats.failed = call_log.before.failed + 1
        /\ file_has_conversion_record(conversions, call_log.path)
        /\ Row(call_log.path).status = "failed"
        /\ Row(call_log.path).error_type = "processing_failed"
        /\ Row(call_log.path).content_hash = call_log.hash
        /\ get_processing_state(processing_state, call_log.path).status = "failed"

\* C23: a run opened by engine.run is open only while run() is between
\* start_new_run and end_run, or after the process was terminated: once
\* run() has come back, with files or without, its run is closed.
C23_RunIsClosed ==
    (current_run_id # NULL /\ ~runs[current_run_id].ended) =>
        pc \in Running \cup {"killed"}

\* C24: when engine.run has ended a run, the counters in the row of that
\* run are those of the files discovered in that run alone: total_files is
\* their number, and each of them is counted under exactly one of
\* successful, failed, skipped and duplicates_referenced.
C24_CountersOfThisRun ==
    (pc = "done" /\ runs[current_run_id].ended) =>
        LET row == runs[current_run_id]
        IN  /\ row.total_files = Cardinality(run_log.discovered)
            /\ row.successful + row.failed + row.skipped
                   + row.duplicates_referenced = Cardinality(run_log.discovered)

\* C25: a process_file call that has ended in a failed or skipped outcome
\* (a counter failed, skipped or upload_failed grew) has left in the store
\* a row that describes the outcome: a failed conversion record of the path
\* or a processing state of the path with status failed or skipped.
C25_OutcomeIsDurable ==
    (/\ call_log.status = "returned"
     /\ \/ stats.failed > call_log.before.failed
        \/ stats.skipped > call_log.before.skipped
        \/ stats.upload_failed > call_log.before.upload_failed) =>
        \/ /\ file_has_conversion_record(conversions, call_log.path)
           /\ Row(call_log.path).status = "failed"
        \/ \E i \in 1..Len(processing_state) :
               /\ processing_state[i].file_path = call_log.path
               /\ processing_state[i].status \in {"failed", "skipped"}

\* C26: no step of the program removes a committed conversions row or a
\* committed (hash, path) pair of content_hash_index: the rows keep their
\* identifiers and paths, and the index only grows.
C26_StoreOnlyGrows ==
    [][/\ content_hash_index \subseteq content_hash_index'
       /\ Len(conversions) <= Len(conversions')
       /\ \A i \in 1..Len(conversions) :
              conversions'[i].original_file_path = conversions[i].original_file_path]_vars

\* C27: in every store state processing_state holds at most one row per
\* pair of path and run identifier, the absent run identifier included.
C27_OneStatePerPathAndRun ==
    \A i, j \in 1..Len(processing_state) :
        (/\ processing_state[i].file_path = processing_state[j].file_path
         /\ processing_state[i].run_id = processing_state[j].run_id) => i = j

\* C28: should_process_file consults the processing state of the path that
\* was written last: when that state is completed and the file is not newer
\* than it, the file is passed over, whatever older rows of the path say.
C28_LatestStateConsulted ==
    (/\ call_log.status = "checked"
     /\ ~call_log.force
     /\ call_log.prior.status = "completed"
     /\ call_log.mtime <= call_log.prior.file_modification_time) =>
        call_log.ret = FALSE

\* The conversions rows that are completed and carry hash h.
CompletedWith(h) ==
    {i \in Ids : conversions[i].status = "completed" /\ conversions[i].content_hash = h}

C30_DuplicateIffOtherPath ==
    \A h \in Hashes, p \in Paths :
        /\ is_duplicate_content(content_hash_index, h, p) <=>
               \E q \in Paths \ {p} : <<h, q>> \in content_hash_index
        /\ (\A e \in content_hash_index : e[1] = h => e[2] = p) =>
               ~is_duplicate_content(content_hash_index, h, p)

\* process_file has just checked a file whose own pair is in the index and
\* found it not to be a duplicate.
C30_Witness ==
    /\ pc = "convert"
    /\ config.detect_duplicates
    /\ <<call_log.hash, call_log.path>> \in content_hash_index
    /\ ~call_log.dup

\* C31: a transient lock error met while a converted file is recorded does
\* not cost the file its record: once the call is over, the path has a
\* completed record.
C31_LockDoesNotLoseRecord ==
    \A o \in Orchestrators :
        (call_log[o].busy /\ pc[o] \in {"end", "done", "raised"}) =>
            /\ file_has_conversion_record(conversions, PathOf(o))
            /\ Row(PathOf(o)).status = "completed"

\* process_file at its retry loop, for every max_retries from 0 to
\* MaxRetries and every behaviour of the converter over the calls the loop
\* can make and one more: the first file of the first run on an empty store
\* has passed the duplicate check.
Answers == {"ok", "false", "raise"}

AllScripts(max_retries) == [1..(max_retries + 2) -> Answers]

RetryInit ==
    /\ conversions = <<>>
    /\ processing_state = <<>>
    /\ content_hash_index = {}
    /\ runs = <<NewRun>>
    /\ file_hash \in {f \in [Paths -> Hashes] : f["a"] = "h1"}
    /\ file_mtime = [p \in Paths |-> 1]
    /\ pc = "convert"
    /\ config \in {[c EXCEPT !.max_retries = m] :
                       c \in Configs, m \in 0..MaxRetries}
    /\ current_run_id = 1
    /\ todo \in {<<"a">>, <<"a", "b">>}
    /\ stats = [InitStats EXCEPT !.total_files = 1]
    /\ run_log = [discovered |-> Range(todo), selected |-> Range(todo),
                  attempted |-> {}, touched |-> {}, pending_touched |-> {},
                  prev_files |-> {}, prev_done |-> FALSE,
                  prev_all_completed |-> FALSE, empty_start |-> TRUE,
                  clean |-> TRUE, faults |-> 0, touches |-> 0]
    /\ call_log = [NoCall EXCEPT !.path = "a", !.status = "running",
                                 !.before = [InitStats EXCEPT !.total_files = 1],
                                 !.hash = file_hash["a"], !.mtime = 1]

RetryNext == \E script \in AllScripts(config.max_retries) : Convert(script)

RetrySpec == RetryInit /\ [][RetryNext]_vars

\* ConversionMetadataManager (the JSON store).  The metadata dictionary is
\* held in conversions (the list of records), processing_state (file path ->
\* state) and content_hash_index; the last call is held in call_log.
MaxRecords == 3

BlobPaths == {generate_blob_path(h) : h \in Hashes}

NoJsonCall == [op |-> "none", path |-> "", hash |-> "", blob_path |-> "",
               raised |-> FALSE, before |-> 0]

find_by_original_path(c, path) ==
    SelectSeq(c, LAMBDA r : r.original_file_path = path)

\* record.get("content_hash") == content_hash: a failed record has no such key.
find_by_content_hash(c, hash) ==
    SelectSeq(c, LAMBDA r : "content_hash" \in DOMAIN r /\ r.content_hash = hash)

find_by_blob_path(c, blob_path) ==
    SelectSeq(c, LAMBDA r : "blob_path" \in DOMAIN r /\ r.blob_path = blob_path)

JsonInit ==
    /\ conversions = <<>>
    /\ processing_state = <<>>
    /\ content_hash_index = {}
    /\ runs = <<>>
    /\ file_hash \in [Paths -> Hashes]
    /\ file_mtime = [p \in Paths |-> 1]
    /\ pc = "json"
    /\ config = CHOOSE c \in Configs : TRUE
    /\ current_run_id = NULL
    /\ todo = <<>>
    /\ stats = InitStats
    /\ run_log = <<>>
    /\ call_log = NoJsonCall

\* add_conversion_record(original_file_path, cog_file_path, blob_path,
\* content_hash): append the record, set the processing state of the path,
\* add the pair to the index, save; a failed save is written into the
\* status of the record.
JsonAddConversionRecord(path, blob_path, hash, saved) ==
    /\ pc = "json"
    /\ Len(conversions) < MaxRecords
    /\ conversions' = Append(conversions,
           [conversion_id |-> Len(conversions) + 1,
            original_file_path |-> path, blob_path |-> blob_path,
            content_hash |-> hash, file_modification_time |-> file_mtime[path],
            status |-> IF saved THEN "completed" ELSE "metadata_save_failed"])
    /\ processing_state' =
           [q \in DOMAIN processing_state \cup {path} |->
               IF q = path
               THEN [status |-> "completed", content_hash |-> hash,
                     file_modification_time |-> file_mtime[path]]
               ELSE processing_state[q]]
    /\ content_hash_index' = content_hash_index \cup {<<hash, path>>}
    /\ call_log' = [op |-> "add_conversion_record", path |-> path,
                    hash |-> hash, blob_path |-> blob_path, raised |-> FALSE,
                    before |-> Len(conversions)]
    /\ UNCHANGED <<runs, fs_vars, pc, config, current_run_id, todo, stats, run_log>>

\* add_failed_conversion(original_file_path, error_message, error_type)
JsonAddFailedConversion(path, error_type) ==
    /\ pc = "json"
    /\ Len(conversions) < MaxRecords
    /\ conversions' = Append(conversions,
           [conversion_id |-> Len(conversions) + 1,
            original_file_path |-> path, status |-> "failed",
            error_type |-> error_type])
    /\ call_log' = [op |-> "add_failed_conversion", path |-> path,
                    hash |-> "", blob_path |-> "", raised |-> FALSE,
                    before |-> Len(conversions)]
    /\ UNCHANGED <<processing_state, content_hash_index, runs, fs_vars, pc,
                   config, current_run_id, todo, stats, run_log>>

\* create_conversion_record_from_upload(original_file_path, upload_result):
\* calculate_content_hash of the original, then
\* self.add_conversion_record(..., run_id=run_id).  add_conversion_record
\* has no parameter run_id: the call raises TypeError before anything is
\* written.
JsonCreateConversionRecordFromUpload(path, upload_blob_path) ==
    /\ pc = "json"
    /\ call_log' = [op |-> "create_conversion_record_from_upload",
                    path |-> path, hash |-> file_hash[path],
                    blob_path |-> upload_blob_path, raised |-> TRUE,
                    before |-> Len(conversions)]
    /\ UNCHANGED <<store_vars, runs, fs_vars, pc, config, current_run_id,
                   todo, stats, run_log>>

JsonNext ==
    \/ \E path \in Paths, blob_path \in BlobPaths, hash \in Hashes,
          saved \in BOOLEAN :
           JsonAddConversionRecord(path, blob_path, hash, saved)
    \/ \E path \in Paths, error_type \in {"processing_failed", "skipped"} :
           JsonAddFailedConversion(path, error_type)
    \/ \E path \in Paths, blob_path \in BlobPaths :
           JsonCreateConversionRecordFromUpload(path, blob_path)

JsonSpec == JsonInit /\ [][JsonNext]_vars

\* get_all_conversions: the columns the SELECT names.  error_message,
\* error_type and additional_metadata are not among them.  (The list is
\* ordered by conversion_timestamp; each entry carries its conversion_id.)
ExportedColumns ==
    {"original_file_path", "blob_path", "content_hash",
     "file_modification_time", "status", "duplicate_of_conversion_id",
     "is_duplicate", "run_id"}

get_all_conversions(c) ==
    {[conversion_id |-> i] @@ [f \in ExportedColumns |-> c[i][f]] :
         i \in DOMAIN c}

\* _get_all_processing_state: state[row[0]] = {...} for each row of the
\* table scan: a dictionary keyed by file_path alone, in which a later row
\* of a path replaces the earlier one.
get_all_processing_state(s) ==
    [p \in {s[i].file_path : i \in DOMAIN s} |->
        LET i == CHOOSE i \in DOMAIN s :
                     /\ s[i].file_path = p
                     /\ \A j \in DOMAIN s : s[j].file_path = p => j <= i
        IN  [status |-> s[i].status, content_hash |-> s[i].content_hash,
             file_modification_time |-> s[i].file_modification_time,
             run_id |-> s[i].run_id]]

\* _get_content_hash_index: content_hash -> list of file paths.
get_content_hash_index(x) ==
    [h \in {pair[1] : pair \in x} |-> {pair[2] : pair \in {q \in x : q[1] = h}}]

\* get_all_runs: the nine columns the SELECT names (config_snapshot is not
\* among them); end_time is the column that tells an ended run.
get_all_runs(r) ==
    [i \in DOMAIN r |->
        [end_time |-> r[i].ended, total_files |-> r[i].total_files,
         successful |-> r[i].successful, failed |-> r[i].failed,
         skipped |-> r[i].skipped,
         duplicates_referenced |-> r[i].duplicates_referenced]]

export_to_json(st, r) ==
    [conversions |-> get_all_conversions(st.c),
     processing_state |-> get_all_processing_state(st.s),
     content_hash_index |-> get_content_hash_index(st.x),
     runs |-> get_all_runs(r)]

\* C32: the export loses nothing: every conversions row can be read back
\* from it with its error kind, every processing_state row with its path and
\* run, every index pair and every run.
C32_ExportKeepsEverything ==
    LET e == export_to_json(Store, runs)
    IN  /\ \A i \in DOMAIN conversions :
              /\ \E r \in e.conversions :
                    /\ r.conversion_id = i
                    /\ \A f \in ExportedColumns : r[f] = conversions[i][f]
              /\ \A f \in DOMAIN conversions[i] \ ExportedColumns :
                    conversions[i][f] = ""
        /\ \A i \in DOMAIN processing_state :
              LET row == processing_state[i]
              IN  /\ row.file_path \in DOMAIN e.processing_state
                  /\ e.processing_state[row.file_path].run_id = row.run_id
                  /\ e.processing_state[row.file_path].status = row.status
        /\ \A pair \in content_hash_index :
              /\ pair[1] \in DOMAIN e.content_hash_index
              /\ pair[2] \in e.content_hash_index[pair[1]]
        /\ DOMAIN e.runs = DOMAIN runs

\* C33: after add_conversion_record or create_conversion_record_from_upload
\* for a path, find_by_original_path of it returns the new record, with the
\* content hash of the original and the blob path of the upload; on a store
\* that was empty it is the one record found by path, by hash and by blob
\* path.
C33_Traceable ==
    call_log.op \in {"add_conversion_record",
                     "create_conversion_record_from_upload"} =>
        /\ \E i \in DOMAIN find_by_original_path(conversions, call_log.path) :
              LET r == find_by_original_path(conversions, call_log.path)[i]
              IN  /\ r.conversion_id = call_log.before + 1
                  /\ r.content_hash = call_log.hash
                  /\ r.blob_path = call_log.blob_path
        /\ call_log.before = 0 =>
              /\ Len(find_by_original_path(conversions, call_log.path)) = 1
              /\ Len(find_by_content_hash(conversions, call_log.hash)) = 1
              /\ Len(find_by_blob_path(conversions, call_log.blob_path)) = 1

\* C34: whatever the converter does at each call and whatever max_retries
\* is, the retry loop of process_file is over after at most max_retries + 1
\* calls of convert, with exactly one outcome: converted (successful counted
\* once, failed not) or terminal-failed (failed counted once, successful not).
C34_BoundedAttempts ==
    /\ pc # "convert" => call_log.conv \in {"ok", "false", "exhausted"}
    /\ call_log.conv # "none" =>
          /\ pc # "convert"
          /\ call_log.calls \in 1..(config.max_retries + 1)
          /\ stats.successful - call_log.before.successful
                 = (IF call_log.conv = "ok" THEN 1 ELSE 0)
          /\ stats.failed - call_log.before.failed
                 = (IF call_log.conv = "ok" THEN 0 ELSE 1)
          /\ stats.retries - call_log.before.retries < call_log.calls

\* With max_retries = 1 the converter raised twice and would have succeeded
\* at a third call, which was not made.
C34_Witness ==
    /\ config.max_retries = 1
    /\ call_log.script = <<"raise", "raise", "ok">>
    /\ call_log.conv = "exhausted"
    /\ call_log.calls = 2

\* C35: every duplicate linkage points backwards: a record that references
\* another one references a record with a strictly smaller conversion_id
\* (so the linkages form no cycle and no record references itself).
C35_LinkagePointsBackwards ==
    \A i \in DOMAIN conversions :
        conversions[i].duplicate_of_conversion_id # NULL =>
            /\ conversions[i].duplicate_of_conversion_id \in 1..(i - 1)
            /\ conversions[conversions[i].duplicate_of_conversion_id]
                   .original_file_path # conversions[i].original_file_path

\* A reference was created to a record that has since been rewritten in
\* place by the update path (its file was touched and reprocessed).
C35_Witness ==
    \E i \in DOMAIN conversions :
        /\ conversions[i].duplicate_of_conversion_id # NULL
        /\ conversions[conversions[i].duplicate_of_conversion_id].run_id
               > conversions[i].run_id

\* C36: once add_conversion_record has returned for a path, by the insert
\* or by the update path, the processing state consulted for the path is
\* completed with the modification time recorded by that call, and
\* should_process_file passes the file over as long as it is not modified.
C36_StateAfterRecord ==
    (call_log.recorded /\ call_log.status = "returned") =>
        LET path  == call_log.path
            state == get_processing_state(processing_state, path)
        IN  /\ state.status = "completed"
            /\ state.file_modification_time = Row(path).file_modification_time
            /\ file_mtime[path] = Row(path).file_modification_time =>
                   ~should_process_file(Store, path, FALSE, file_mtime[path],
                                        NULL).ret

\* C37: every conversions row is coherent: its status is
\* duplicate_referenced exactly when is_duplicate is true, and exactly when
\* duplicate_of_conversion_id is set; also for rows rewritten in place.
C37_RowIsCoherent ==
    \A i \in DOMAIN conversions :
        /\ conversions[i].status = "duplicate_referenced"
               <=> conversions[i].is_duplicate
        /\ conversions[i].is_duplicate
               <=> conversions[i].duplicate_of_conversion_id # NULL

\* C38: every duplicate_referenced record carries the content hash and the
\* blob path of the record it references, also after the referenced row
\* was rewritten in place.
C38_ReferenceAgrees ==
    \A i \in DOMAIN conversions :
        conversions[i].status = "duplicate_referenced" =>
            LET j == conversions[i].duplicate_of_conversion_id
            IN  /\ j \in DOMAIN conversions
                /\ conversions[j].content_hash = conversions[i].content_hash
                /\ conversions[j].blob_path = conversions[i].blob_path

\* C39: a process_file call counts the file once in total_files and once in
\* exactly one of successful, failed, skipped and duplicates_referenced,
\* also when the duplicate is detected after the conversion succeeded.
C39_OneOutcomeCounted ==
    \A o \in Orchestrators :
        pc[o] \in {"end", "done"} =>
            /\ stats[o].total_files = 1
            /\ stats[o].successful + stats[o].failed + stats[o].skipped
                   + stats[o].duplicates_referenced = 1

\* C40: a file is stopped by the duplicate check instead of being converted
\* only if a completed record of its content hash exists at that moment: an
\* index entry of a failed or skipped path is not enough, under any strategy.
C40_StoppedOnlyByCompleted ==
    (/\ call_log.status = "returned"
     /\ call_log.path # ""
     /\ call_log.conv = "none") =>
        CompletedWith(call_log.hash) # {}

====
